---- MODULE Spec2Model ----
(***************************************************************************)
(* Model of contrib/pylightning/lightning/plugin.py: the Plugin method     *)
(* registry, the _dispatch binding protocol, the run/_multi_dispatch read  *)
(* loop, the init handshake and the PluginStream redirector.               *)
(*                                                                         *)
(* Text is a sequence of characters.  The character "NL" is the newline;   *)
(* every other character stands for one whole piece of text that contains  *)
(* no newline: a JSON document of the input stream (see Doc) or a piece of *)
(* printed text.                                                           *)
(***************************************************************************)
EXTENDS Integers, Sequences, FiniteSets, TLC

NL == "NL"

\* ------------------------------------------------------------------------
\* Bounds of the model

\* most chunks the input stream delivers before it can only close
MaxReads == 2
\* most calls of write and flush on a PluginStream
MaxOps == 3

\* ------------------------------------------------------------------------
\* Text

RECURSIVE Count(_, _)
\* number of occurrences of character c in s
Count(s, c) ==
  IF s = <<>> THEN 0
  ELSE (IF Head(s) = c THEN 1 ELSE 0) + Count(Tail(s), c)

\* the least i with s[i] = s[i+1] = NL, or 0
FindDelim(s) ==
  LET hits == {i \in 1..(Len(s) - 1) : s[i] = NL /\ s[i + 1] = NL}
  IN  IF hits = {} THEN 0 ELSE CHOOSE i \in hits : \A j \in hits : i <= j

RECURSIVE SplitFrames(_)
\* partial.split('\n\n'): left to right, non-overlapping, never empty
SplitFrames(s) ==
  LET i == FindDelim(s)
  IN  IF i = 0 THEN <<s>>
      ELSE <<SubSeq(s, 1, i - 1)>> \o SplitFrames(SubSeq(s, i + 2, Len(s)))

\* the least i with s[i] = NL, or 0
FindNL(s) ==
  LET hits == {i \in 1..Len(s) : s[i] = NL}
  IN  IF hits = {} THEN 0 ELSE CHOOSE i \in hits : \A j \in hits : i <= j

RECURSIVE SplitLines(_)
\* buff.split('\n')
SplitLines(s) ==
  LET i == FindNL(s)
  IN  IF i = 0 THEN <<s>>
      ELSE <<SubSeq(s, 1, i - 1)>> \o SplitLines(SubSeq(s, i + 1, Len(s)))

\* msgs[:-1]
AllButLast(q) == SubSeq(q, 1, Len(q) - 1)

\* msgs[-1]
Last(q) == q[Len(q)]

RECURSIVE Strip(_)
\* the text without leading and trailing whitespace (the JSON decoder skips it)
Strip(s) ==
  IF s = <<>> THEN s
  ELSE IF Head(s) = NL THEN Strip(Tail(s))
  ELSE IF Last(s) = NL THEN Strip(AllButLast(s))
  ELSE s

\* ------------------------------------------------------------------------
\* JSON documents of the input stream

None == "None"

\* The documents a character of the input may stand for.  "Z" is text that is
\* not JSON.  A request is {method, params, id}; has* tells whether the
\* member is present, args is a list params, kwargs a mapping params (a
\* sequence of <<name, value>> in insertion order).
DocNames == {"H", "I", "J", "G", "X", "Y", "P", "L"}

Junk == "Z"

NoParams == [kind |-> "dict", args |-> <<>>, kwargs |-> <<>>]

InitParams ==
  [kind |-> "dict", args |-> <<>>,
   kwargs |-> << <<"options", "opts">>, <<"configuration", "conf">> >>]

\* a mapping params in which the caller supplies the two reserved names
ReservedParams ==
  [kind |-> "dict", args |-> <<>>,
   kwargs |-> << <<"plugin", "caller">>, <<"request", "caller">> >>]

\* a list params of two values
ListParams == [kind |-> "list", args |-> <<"n", "p">>, kwargs |-> <<>>]

Doc(d) ==
  CASE d = "H" -> [hasMethod |-> TRUE, method |-> "hello", hasParams |-> TRUE,
                   params |-> NoParams, hasId |-> TRUE, id |-> "1"]
    [] d = "I" -> [hasMethod |-> TRUE, method |-> "init", hasParams |-> TRUE,
                   params |-> InitParams, hasId |-> TRUE, id |-> "2"]
    [] d = "J" -> [hasMethod |-> TRUE, method |-> "init", hasParams |-> TRUE,
                   params |-> NoParams, hasId |-> TRUE, id |-> "3"]
    [] d = "G" -> [hasMethod |-> TRUE, method |-> "getmanifest", hasParams |-> TRUE,
                   params |-> NoParams, hasId |-> TRUE, id |-> "4"]
    [] d = "X" -> [hasMethod |-> TRUE, method |-> "hello", hasParams |-> TRUE,
                   params |-> NoParams, hasId |-> FALSE, id |-> ""]
    [] d = "Y" -> [hasMethod |-> FALSE, method |-> "", hasParams |-> TRUE,
                   params |-> NoParams, hasId |-> TRUE, id |-> "5"]
    [] d = "P" -> [hasMethod |-> TRUE, method |-> "hello", hasParams |-> TRUE,
                   params |-> ReservedParams, hasId |-> TRUE, id |-> "6"]
    [] d = "L" -> [hasMethod |-> TRUE, method |-> "hello", hasParams |-> TRUE,
                   params |-> ListParams, hasId |-> TRUE, id |-> "7"]

\* json.loads(payload): whitespace around the document is skipped; the empty
\* text, text that is no JSON and anything after a first document are errors.
Decodable(payload) ==
  /\ Len(Strip(payload)) = 1
  /\ Strip(payload)[1] \in DocNames

\* the name of the document json.loads(payload) returns
Decode(payload) == Strip(payload)[1]

\* ------------------------------------------------------------------------
\* Handlers

\* a declared parameter of a handler
Param(n, hasDefault) == [name |-> n, hasDefault |-> hasDefault, default |-> None]

\* inspect.signature(func).parameters of the handlers of the model: the two
\* bound methods of Plugin and three handlers a program registers
Sig(func) ==
  CASE func = "_getmanifest" -> <<>>
    [] func = "_init" -> <<Param("options", FALSE), Param("configuration", FALSE),
                           Param("request", FALSE)>>
    [] func = "hello_f" -> <<Param("name", TRUE), Param("plugin", TRUE),
                             Param("request", TRUE)>>
    [] func = "boom_f" -> <<Param("options", TRUE), Param("configuration", TRUE)>>
    [] func = "uinit_f" -> <<Param("options", FALSE), Param("configuration", FALSE),
                             Param("plugin", TRUE)>>

\* inspect.getdoc(func), "" when the handler has no docstring
GetDoc(func) ==
  CASE func = "hello_f" -> "Say hello."
    [] func = "uinit_f" -> "Initialise."
    [] OTHER -> ""

\* the handlers whose body raises an exception
Raises(func) == func = "boom_f"

\* what a returning registered handler returns
Returns(func) ==
  CASE func = "hello_f" -> "hi"
    [] func = "uinit_f" -> "inited"
    [] OTHER -> None

\* values a handler returns, as JSON
Null == [tag |-> "null", str |-> "", options |-> <<>>, rpcmethods |-> <<>>]

Str(s) == [tag |-> "str", str |-> s, options |-> <<>>, rpcmethods |-> <<>>]

Manifest(ms) == [tag |-> "manifest", str |-> "", options |-> <<>>, rpcmethods |-> ms]

\* ------------------------------------------------------------------------
\* The registry: self.methods, a dict in insertion order

HasMethod(ms, n) == \E i \in 1..Len(ms) : ms[i].name = n

GetMethod(ms, n) == (CHOOSE i \in 1..Len(ms) : ms[i].name = n)

\* self.methods[name] = func
SetMethod(ms, n, f) ==
  IF HasMethod(ms, n)
  THEN [ms EXCEPT ![GetMethod(ms, n)] = [name |-> n, func |-> f]]
  ELSE Append(ms, [name |-> n, func |-> f])

\* self.methods[name]
FuncOf(ms, n) == ms[GetMethod(ms, n)].func

\* ------------------------------------------------------------------------
\* Binding: sig.bind(*args, **kwargs) and ba.apply_defaults()

KwHas(kw, n) == \E i \in 1..Len(kw) : kw[i][1] = n

KwGet(kw, n) == kw[CHOOSE i \in 1..Len(kw) : kw[i][1] = n][2]

\* kwargs[n] = v
KwSet(kw, n, v) ==
  IF KwHas(kw, n)
  THEN [kw EXCEPT ![CHOOSE i \in 1..Len(kw) : kw[i][1] = n] = <<n, v>>]
  ELSE Append(kw, <<n, v>>)

SigHas(sig, n) == \E i \in 1..Len(sig) : sig[i].name = n

SigPos(sig, n) == CHOOSE i \in 1..Len(sig) : sig[i].name = n

\* a bind that lets a positional value take the place of a keyword
CanBindByPosition(sig, args, kw) ==
  /\ Len(args) <= Len(sig)
  /\ \A i \in 1..Len(kw) : SigHas(sig, kw[i][1])
  /\ \A i \in (Len(args) + 1)..Len(sig) :
       KwHas(kw, sig[i].name) \/ sig[i].hasDefault

\* sig.bind raises TypeError: too many positional arguments, an unexpected
\* keyword, a parameter given by position and by keyword, or a parameter
\* without default left unbound
CanBind(sig, args, kw) ==
  /\ Len(args) <= Len(sig)
  /\ \A i \in 1..Len(kw) :
       /\ SigHas(sig, kw[i][1])
       /\ SigPos(sig, kw[i][1]) > Len(args)
  /\ \A i \in (Len(args) + 1)..Len(sig) :
       KwHas(kw, sig[i].name) \/ sig[i].hasDefault

\* ba.arguments after apply_defaults: <<name, value>> per declared parameter
BoundArgs(sig, args, kw) ==
  [i \in 1..Len(sig) |->
     <<sig[i].name,
       IF i <= Len(args) THEN args[i]
       ELSE IF KwHas(kw, sig[i].name) THEN KwGet(kw, sig[i].name)
       ELSE sig[i].default>>]

\* ------------------------------------------------------------------------
\* Output frames and the record of what happened
\*
\* The operators below thread the plugin's state through the calls of one
\* handler as a record st:
\*   methods  self.methods
\*   init     self.init (None or the stashed handler)
\*   stdout   the frames written to self.stdout, in order
\*   wire     the calls made on self.stdout, in order: dump (json.dump of a
\*            frame), delimiter (write of "\n\n") and flush
\*   out      self.stdout, or Unset
\*   segs     the segments the loop of _multi_dispatch has started on, each
\*            with the registry and stash as they were at that moment
\*   trace    the events so far: begin (a segment's loop body starts), invoke
\*            (a handler is called, bound its arguments), return (it returns
\*            value) or raise, emit (a frame is written; at is its position
\*            in stdout), crash (an exception leaves run)

\* {"jsonrpc": "2.0", "result": result, "id": id}
Success(id, result) ==
  [type |-> "result", id |-> id, result |-> result, error |-> "",
   level |-> "", message |-> <<>>]

\* {"jsonrpc": "2.0", "error": "Error while processing <method>", "id": id}
Failure(id, method) ==
  [type |-> "error", id |-> id, result |-> Null, error |-> method,
   level |-> "", message |-> <<>>]

\* notify('log', {'level': level, 'message': message})
LogFrame(lvl, message) ==
  [type |-> "log", id |-> "", result |-> Null, error |-> "",
   level |-> lvl, message |-> message]

\* traceback.format_exc()
Traceback == <<"traceback">>

Event(st, e, func, bound, value) ==
  [st EXCEPT !.trace = Append(@, [ev |-> e, seg |-> Len(st.segs), func |-> func,
                                  at |-> Len(st.stdout), bound |-> bound,
                                  value |-> value])]

\* an attribute __init__ did not assign
Unset == "unset"

\* self.stdout after __init__(stdout=c.stdout, ...): assigned only when the
\* argument is None
SelfStdout(c) == IF c.stdout = None THEN "sys.stdout" ELSE Unset

\* self.stdin after __init__(stdin=c.stdin, ...)
SelfStdin(c) == IF c.stdin = None THEN "sys.stdin" ELSE Unset

\* reading self.stdout does not raise AttributeError
Writable(st) == st.out # Unset

\* a call on self.stdout, for the frame at position at of stdout
Call(st, w) == [st EXCEPT !.wire = Append(@, [w |-> w, at |-> Len(st.stdout)])]

\* json.dump(frame, self.stdout)
Dumped(st, frame) == Call([st EXCEPT !.stdout = Append(@, frame)], "dump")

\* a frame that is left without its delimiter
DelimiterMissing(st) == st

\* self.stdout.write("\n\n")
Delimited(st) == Call(st, "delimiter")

\* self.stdout.flush()
Flushed(st) == Call(st, "flush")

\* json.dump(frame, self.stdout); self.stdout.write("\n\n"); self.stdout.flush()
\* (nothing is written when self.stdout is unset: AttributeError is raised,
\* which the callers of Emit account for)
Emit(st, frame) ==
  IF Writable(st)
  THEN Event(Flushed(Delimited(Dumped(st, frame))), "emit", "", <<>>, Null)
  ELSE st

\* Plugin.log with the default level
Log(st, message) == Emit(st, LogFrame("info", message))

\* a manifest that leaves out 'getmanifest' only
ListedExceptGetmanifest(name) == name # "getmanifest"

\* the names _getmanifest does not skip
Listed(name) == name \notin {"getmanifest", "init"}

RECURSIVE ManifestFrom(_, _, _)
\* the loop of _getmanifest from entry i on, acc the methods collected so far
ManifestFrom(st, i, acc) ==
  IF i > Len(st.methods) THEN [st |-> st, value |-> acc, raised |-> FALSE]
  ELSE LET m == st.methods[i]
       IN  IF ~Listed(m.name)
           THEN ManifestFrom(st, i + 1, acc)
           ELSE IF GetDoc(m.func) = "" /\ ~Writable(st)
           THEN [st |-> st, value |-> acc, raised |-> TRUE]
           ELSE IF GetDoc(m.func) = ""
           THEN ManifestFrom(Log(st, <<"nodoc", m.name>>), i + 1,
                   Append(acc, [name |-> m.name,
                                description |-> "Undocumented RPC method from a plugin."]))
           ELSE ManifestFrom(st, i + 1,
                   Append(acc, [name |-> m.name, description |-> GetDoc(m.func)]))

\* Plugin._getmanifest
GetManifest(st) ==
  LET r == ManifestFrom(st, 1, <<>>)
  IN  [st |-> r.st, raised |-> r.raised,
       value |-> IF r.raised THEN Null ELSE Manifest(r.value)]

\* the body of a handler registered by the program
UserFunc(st, func) ==
  IF Raises(func)
  THEN [st |-> st, raised |-> TRUE, value |-> Null]
  ELSE [st |-> st, raised |-> FALSE, value |-> Str(Returns(func))]

\* args of _dispatch: a copy of params when it is a list
Args(params) == IF params.kind = "list" THEN params.args ELSE <<>>

\* kwargs that keep what the caller supplied under 'plugin' and 'request'
KwargsKeepingCaller(sig, params, d) ==
  LET kw0 == IF params.kind = "dict" THEN params.kwargs ELSE <<>>
      kw1 == IF SigHas(sig, "plugin") /\ ~KwHas(kw0, "plugin")
             THEN KwSet(kw0, "plugin", "SELF") ELSE kw0
  IN  IF SigHas(sig, "request") /\ ~KwHas(kw1, "request")
      THEN KwSet(kw1, "request", d) ELSE kw1

\* kwargs of _dispatch for the request d: a copy of params when it is a dict,
\* then 'plugin' and 'request' set when the handler declares them
Kwargs(sig, params, d) ==
  LET kw0 == IF params.kind = "dict" THEN params.kwargs ELSE <<>>
      kw1 == IF SigHas(sig, "plugin") THEN KwSet(kw0, "plugin", "SELF") ELSE kw0
  IN  IF SigHas(sig, "request") THEN KwSet(kw1, "request", d) ELSE kw1

RECURSIVE Dispatch(_, _)
RECURSIVE CallFunc(_, _, _)

\* an internal handler that restores the user handler but keeps the stash
InitHandlerKeepsStash(st, d) ==
  IF st.init # None
  THEN Dispatch([st EXCEPT !.methods = SetMethod(@, "init", st.init)], d)
  ELSE [st |-> st, raised |-> FALSE, value |-> Null]

\* Plugin._init(options, configuration, request)
InitHandler(st, d) ==
  IF st.init # None
  THEN Dispatch([st EXCEPT !.methods = SetMethod(@, "init", st.init),
                           !.init = None], d)
  ELSE [st |-> st, raised |-> FALSE, value |-> Null]

\* func(*ba.args, **ba.kwargs) for the request d, with its events
CallFunc(st, func, d) ==
  LET r == CASE func = "_getmanifest" -> GetManifest(st)
             [] func = "_init" -> InitHandler(st, d)
             [] OTHER -> UserFunc(st, func)
  IN  [r EXCEPT !.st = Event(@, IF r.raised THEN "raise" ELSE "return", func, <<>>,
                             r.value)]

\* Plugin._dispatch(request), request the document d: raised tells whether an
\* exception leaves it, value is what it returns
Dispatch(st, d) ==
  LET req == Doc(d)
      failed == [st |-> st, raised |-> TRUE, value |-> Null]
  IN  IF ~req.hasMethod \/ ~req.hasParams THEN failed
      ELSE IF ~HasMethod(st.methods, req.method) THEN failed
      ELSE LET func == FuncOf(st.methods, req.method)
               sig == Sig(func)
               args == Args(req.params)
               kw == Kwargs(sig, req.params, d)
           IN  IF ~CanBind(sig, args, kw) THEN failed
               ELSE CallFunc(Event(st, "invoke", func, BoundArgs(sig, args, kw), Null),
                             func, d)

\* a response that drops what the handler returned
WrapResultNoValue(req, value) == Success(req.id, Null)

\* the response _multi_dispatch builds for a request whose dispatch returned
WrapResult(req, value) == Success(req.id, value)

\* an error response that does not say which request it answers
WrapErrorNoId(req) == Failure("", req.method)

\* the response _multi_dispatch builds in its except clause
WrapError(req) == Failure(req.id, req.method)

\* the body of the loop of _multi_dispatch for one payload: crashed tells
\* whether an exception leaves _multi_dispatch
Process(st, payload) ==
  LET st0 == Event([st EXCEPT !.segs = Append(@, [text |-> payload,
                                                   methods |-> st.methods,
                                                   init |-> st.init])],
                   "begin", "", <<>>, Null)
  IN  IF ~Decodable(payload)
      THEN [st |-> Event(st0, "crash", "", <<>>, Null), crashed |-> TRUE]
      ELSE LET d == Decode(payload)
               req == Doc(d)
               r == Dispatch(st0, d)
           IN  IF ~r.raised /\ req.hasId /\ Writable(r.st)
               THEN [st |-> Emit(r.st, WrapResult(req, r.value)), crashed |-> FALSE]
               ELSE IF ~req.hasMethod \/ ~req.hasId \/ ~Writable(r.st)
               THEN [st |-> Event(r.st, "crash", "", <<>>, Null), crashed |-> TRUE]
               ELSE [st |-> Emit(Log(r.st, Traceback), WrapError(req)),
                     crashed |-> FALSE]

RECURSIVE MultiDispatchNewestFirst(_, _)
\* a loop that takes the complete segments from the newest to the oldest
MultiDispatchNewestFirst(st, todo) ==
  IF todo = <<>> THEN [st |-> st, crashed |-> FALSE]
  ELSE LET r == Process(st, Last(todo))
       IN  IF r.crashed THEN r ELSE MultiDispatchNewestFirst(r.st, AllButLast(todo))

RECURSIVE MultiDispatch(_, _)
\* Plugin._multi_dispatch applied to the complete segments todo = msgs[:-1]
MultiDispatch(st, todo) ==
  IF todo = <<>> THEN [st |-> st, crashed |-> FALSE]
  ELSE LET r == Process(st, Head(todo))
       IN  IF r.crashed THEN r ELSE MultiDispatch(r.st, Tail(todo))

\* ------------------------------------------------------------------------
\* State

VARIABLES
  pc,        \* "setup" (constructed, run not called), "running" (in the loop of
             \* run), "done" (run returned), "crashed" (an exception left run)
  methods,   \* self.methods
  init,      \* self.init
  partial,   \* the local partial of run
  stdout,    \* the frames written to self.stdout
  wire,      \* history: the calls made on self.stdout (see above)
  segs,      \* history: the segments dispatched (see above)
  trace,     \* history: the events (see above)
  nreads,    \* history: number of chunks read from self.stdin
  ctor,      \* the arguments stdout and stdin the plugin was constructed with
  stdin,     \* history: the text read from self.stdin so far
  eof,       \* self.stdin has nothing more to deliver
  lastReg,   \* the add_method call the program made last, and whether it
             \* raised ValueError; forgotten when run is called
  buff,      \* PluginStream.buff
  level,     \* PluginStream.level
  ops        \* history: the write and flush calls on the PluginStream

vars == <<pc, methods, init, partial, stdout, wire, segs, trace, nreads, stdin,
          eof, lastReg, ctor, buff, level, ops>>

plugin == <<pc, methods, init, partial, segs, trace, nreads, stdin, eof, lastReg,
            ctor>>

stream == <<buff, level, ops>>

\* the plugin's state as the record the operators above work on
State == [methods |-> methods, init |-> init, stdout |-> stdout, wire |-> wire,
          out |-> SelfStdout(ctor), segs |-> segs, trace |-> trace]

\* ------------------------------------------------------------------------
\* Inputs

\* what the program may pass to add_method
Registrable ==
  { <<"hello", "hello_f">>, <<"hello", "boom_f">>, <<"init", "uinit_f">>,
    <<"init", "boom_f">>, <<"getmanifest", "hello_f">> }

\* the pieces of text between newlines of the input stream
Pieces == DocNames \cup {Junk}

\* what one iteration of 'for l in self.stdin' may deliver: a line, a whole
\* frame, two frames, two frames and the beginning of a third, or two
\* adjacent delimiters and a frame
Chunks ==
  {<<NL>>}
  \cup {<<"H", NL>>}
  \cup {<<p, NL, NL>> : p \in Pieces}
  \cup {<<p, NL, NL, "I", NL, NL>> : p \in {"H", "I", "J", "G", Junk}}
  \cup {<<p, NL, NL, "H", NL, NL, "G">> : p \in {"I", Junk}}
  \cup {<<NL, NL, NL, NL, "H", NL, NL>>}

\* what a program may write to a PluginStream
Payloads ==
  {<<>>}
  \cup {<<c>> : c \in {"a", "b", NL}}
  \cup {<<c, e>> : c \in {"a", NL}, e \in {"b", NL}}
  \cup {<<"a", NL, "b">>}

\* ------------------------------------------------------------------------
\* Plugin.__init__(stdout, stdin) and PluginStream.__init__(plugin)

\* Plugin(): both arguments left at None
NoArgs == [stdout |-> None, stdin |-> None]

\* the arguments a program may construct the plugin with
CtorArgs == [stdout : {None, "out"}, stdin : {None, "in"}]

InitPlugin ==
  /\ pc = "setup"
  /\ methods = <<[name |-> "getmanifest", func |-> "_getmanifest"]>>
  /\ init = None
  /\ partial = <<>>
  /\ stdout = <<>>
  /\ wire = <<>>
  /\ segs = <<>>
  /\ trace = <<>>
  /\ nreads = 0
  /\ stdin = <<>>
  /\ eof = FALSE
  /\ lastReg = [name |-> "getmanifest", func |-> "_getmanifest", raised |-> FALSE]

Init ==
  /\ InitPlugin
  /\ ctor = NoArgs
  /\ buff = <<>>
  /\ level = "info"
  /\ ops = <<>>

\* the plugin constructed with any of the arguments
InitCtor ==
  /\ InitPlugin
  /\ ctor \in CtorArgs
  /\ buff = <<>>
  /\ level = "info"
  /\ ops = <<>>

\* ------------------------------------------------------------------------
\* Plugin.add_method(name, func), called by the program before run()

\* a registration that silently rebinds a name already bound
AddedMethodOverwriting(ms, name, func) == SetMethod(ms, name, func)

\* the registry after add_method(name, func), which raises when it is unchanged
AddedMethod(ms, name, func) ==
  IF HasMethod(ms, name) THEN ms ELSE SetMethod(ms, name, func)

AddMethod(name, func) ==
  /\ pc = "setup"
  /\ methods' = AddedMethod(methods, name, func)
  /\ lastReg' = [name |-> name, func |-> func, raised |-> HasMethod(methods, name)]
  /\ UNCHANGED <<pc, init, partial, stdout, wire, segs, trace, nreads, stdin, eof>>
  /\ UNCHANGED <<ctor, stream>>

\* ------------------------------------------------------------------------
\* Plugin.run(): the statements before the loop

\* no add_method call to remember
NoCall == [name |-> "", func |-> "", raised |-> FALSE]

\* a stash that leaves the user handler in the registry as well
StashedWithoutSwap(ms, i) ==
  IF HasMethod(ms, "init")
  THEN [methods |-> ms, init |-> FuncOf(ms, "init")]
  ELSE [methods |-> ms, init |-> i]

\* the registry and the stash when the loop starts
Stashed(ms, i) ==
  IF HasMethod(ms, "init")
  THEN [methods |-> SetMethod(ms, "init", "_init"), init |-> FuncOf(ms, "init")]
  ELSE [methods |-> ms, init |-> i]

Run ==
  /\ pc = "setup"
  /\ pc' = IF SelfStdin(ctor) = Unset THEN "crashed" ELSE "running"
  /\ methods' = Stashed(methods, init).methods
  /\ init' = Stashed(methods, init).init
  /\ partial' = <<>>
  /\ lastReg' = NoCall
  /\ UNCHANGED <<stdout, wire, segs, trace, nreads, stdin, eof>>
  /\ UNCHANGED <<ctor, stream>>

\* ------------------------------------------------------------------------
\* Plugin.run(): one iteration of the loop, the chunk l read from self.stdin

\* partial.split('\n\n')
Frames(text) == SplitFrames(text)

Read(l) ==
  /\ pc = "running"
  /\ ~eof
  /\ nreads < MaxReads
  /\ nreads' = nreads + 1
  /\ stdin' = stdin \o l
  /\ LET msgs == Frames(partial \o l)
     IN  IF Len(msgs) < 2
         THEN /\ partial' = partial \o l
              /\ UNCHANGED <<pc, methods, init, stdout, wire, segs, trace>>
         ELSE LET r == MultiDispatch(State, AllButLast(msgs))
              IN  /\ methods' = r.st.methods
                  /\ init' = r.st.init
                  /\ stdout' = r.st.stdout
                  /\ wire' = r.st.wire
                  /\ segs' = r.st.segs
                  /\ trace' = r.st.trace
                  /\ IF r.crashed
                     THEN pc' = "crashed" /\ partial' = partial \o l
                     ELSE pc' = "running" /\ partial' = Last(msgs)
  /\ UNCHANGED <<eof, lastReg>>
  /\ UNCHANGED <<ctor, stream>>

\* the host closes the pipe: self.stdin will deliver nothing more
Exhaust ==
  /\ pc = "running"
  /\ ~eof
  /\ eof' = TRUE
  /\ UNCHANGED <<pc, methods, init, partial, stdout, wire, segs, trace, nreads, stdin,
                 lastReg>>
  /\ UNCHANGED <<ctor, stream>>

\* a loop that dispatches the text left after the last delimiter when the
\* input ends
LeftoverDispatched(st, rest) ==
  IF Strip(rest) = <<>> THEN st ELSE MultiDispatch(st, <<rest>>).st

\* the plugin's state when the for statement ends with rest in partial: the
\* text after the last delimiter is dropped
Leftover(st, rest) == st

\* Plugin.run(): the iterator of self.stdin is exhausted, the loop ends and
\* run returns
Close ==
  /\ pc = "running"
  /\ eof
  /\ pc' = "done"
  /\ LET st == Leftover(State, partial)
     IN  /\ methods' = st.methods
         /\ init' = st.init
         /\ stdout' = st.stdout
         /\ wire' = st.wire
         /\ segs' = st.segs
         /\ trace' = st.trace
  /\ UNCHANGED <<partial, nreads, stdin, eof, lastReg>>
  /\ UNCHANGED <<ctor, stream>>

Next ==
  \/ \E r \in Registrable : AddMethod(r[1], r[2])
  \/ Run
  \/ \E l \in Chunks : Read(l)
  \/ Exhaust
  \/ Close

Spec == Init /\ [][Next]_vars

\* the for statement of run goes on once its iterator is exhausted: the
\* program is not stopped between the end of the input and the end of the loop
SpecFair == Spec /\ WF_vars(Close)

\* the program constructs the plugin with or without streams of its own
SpecCtor == InitCtor /\ [][Next]_vars

\* ------------------------------------------------------------------------
\* PluginStream

RECURSIVE LogLinesSkippingEmpty(_, _, _)
\* a loop that logs no empty line
LogLinesSkippingEmpty(st, lines, lvl) ==
  IF lines = <<>> THEN st
  ELSE IF Head(lines) = <<>> THEN LogLinesSkippingEmpty(st, Tail(lines), lvl)
  ELSE LogLinesSkippingEmpty(Emit(st, LogFrame(lvl, Head(lines))), Tail(lines), lvl)

RECURSIVE LogLines(_, _, _)
\* for l in lines: self.plugin.log(l, self.level)
LogLines(st, lines, lvl) ==
  IF lines = <<>> THEN st
  ELSE LogLines(Emit(st, LogFrame(lvl, Head(lines))), Tail(lines), lvl)

\* a flush that logs the text after the last newline too
FlushBuffWhole(st, b, lvl) ==
  [st |-> LogLines(st, SelectSeq(SplitLines(b), LAMBDA l : l # <<>>), lvl),
   buff |-> <<>>, raised |-> FALSE]

\* PluginStream.flush() with self.buff = b: the plugin's state and the buffer
\* after it
FlushBuff(st, b, lvl) ==
  LET lines == SplitLines(b)
  IN  IF Len(lines) < 2 THEN [st |-> st, buff |-> b, raised |-> FALSE]
      ELSE IF ~Writable(st) THEN [st |-> st, buff |-> b, raised |-> TRUE]
      ELSE [st |-> LogLines(st, AllButLast(lines), lvl), buff |-> Last(lines),
            raised |-> FALSE]

\* a write that flushes whenever the payload holds a newline
WriteFlushesOnAnyNewline(payload) == Count(payload, NL) > 0

\* whether write(payload) goes on to call flush(); payload[-1] of the empty
\* payload raises IndexError
WriteFlushes(payload) == payload # <<>> /\ Last(payload) = NL

\* PluginStream.write(payload)
Write(payload) ==
  /\ Len(ops) < MaxOps
  /\ LET b == buff \o payload
         r == IF WriteFlushes(payload) THEN FlushBuff(State, b, level)
              ELSE [st |-> State, buff |-> b, raised |-> FALSE]
     IN  /\ buff' = r.buff
         /\ stdout' = r.st.stdout
         /\ wire' = r.st.wire
         /\ trace' = r.st.trace
         /\ ops' = Append(ops, [op |-> "write", payload |-> payload,
                                raised |-> (payload = <<>> \/ r.raised)])
  /\ UNCHANGED <<pc, methods, init, partial, segs, nreads, stdin, eof, lastReg,
                 ctor, level>>

\* PluginStream.flush(), called by the program
Flush ==
  /\ Len(ops) < MaxOps
  /\ LET r == FlushBuff(State, buff, level)
     IN  /\ buff' = r.buff
         /\ stdout' = r.st.stdout
         /\ wire' = r.st.wire
         /\ trace' = r.st.trace
         /\ ops' = Append(ops, [op |-> "flush", payload |-> <<>>,
                                raised |-> r.raised])
  /\ UNCHANGED <<pc, methods, init, partial, segs, nreads, stdin, eof, lastReg,
                 ctor, level>>

\* monkey_patch installs one PluginStream with level "info" for sys.stdout and
\* one with level "warn" for sys.stderr
InitStream ==
  /\ InitPlugin
  /\ ctor = NoArgs
  /\ buff = <<>>
  /\ level \in {"info", "warn"}
  /\ ops = <<>>

NextStream ==
  \/ \E payload \in Payloads : Write(payload)
  \/ Flush

SpecStream == InitStream /\ [][NextStream]_vars

\* ========================================================================
\* Properties
\* ========================================================================

\* the segments dispatched so far, by number
Segs == 1..Len(segs)

\* the complete segments of the text read so far
Complete == AllButLast(SplitFrames(stdin))

\* the request segment k decodes to
Req(k) == Doc(Decode(segs[k].text))

\* segment k is a request: decodable, with method, params and id
IsRequest(k) ==
  /\ Decodable(segs[k].text)
  /\ Req(k).hasMethod /\ Req(k).hasParams /\ Req(k).hasId

\* the registry had an entry for the method of segment k when it was dispatched
Registered(k) == HasMethod(segs[k].methods, Req(k).method)

\* the handler the registry held for segment k when it was dispatched
Handler(k) == FuncOf(segs[k].methods, Req(k).method)

\* the parameters of segment k can be bound to that handler
Bindable(k) ==
  CanBind(Sig(Handler(k)), Args(Req(k).params),
          Kwargs(Sig(Handler(k)), Req(k).params, Decode(segs[k].text)))

\* the events e of handler f (or "" for none) while segment k was dispatched
Events(k, e, f) ==
  {i \in 1..Len(trace) : trace[i].seg = k /\ trace[i].ev = e /\ trace[i].func = f}

\* the positions in stdout of the frames of type t written for segment k
FramesOf(k, t) ==
  {trace[i].at : i \in {j \in Events(k, "emit", "") : stdout[trace[j].at].type = t}}

\* the segments dispatched are the first complete segments of the text read
InOrder ==
  LET c == Complete
  IN  /\ Len(segs) <= Len(c)
      /\ \A j \in Segs : segs[j].text = c[j]

\* no exception left the loop at segment k, and every complete segment not
\* dispatched is explained by an exception that left the loop at a later one
ContinuedAfter(k) ==
  /\ Events(k, "crash", "") = {}
  /\ InOrder
  /\ Len(segs) < Len(Complete) =>
       Len(segs) > k /\ Events(Len(segs), "crash", "") # {}

\* C1: a request naming a registered method whose parameters can be bound
\* makes the loop invoke that handler exactly once, and when the handler
\* returns exactly one success response with the returned value as result and
\* the request's id is written for it, and no error response.
C1_SuccessResponse ==
  \A k \in Segs :
    (IsRequest(k) /\ Registered(k) /\ Bindable(k)) =>
      /\ Cardinality(Events(k, "invoke", Handler(k))) = 1
      /\ \A i \in Events(k, "return", Handler(k)) :
           /\ Cardinality(FramesOf(k, "result")) = 1
           /\ \A j \in FramesOf(k, "result") :
                stdout[j].result = trace[i].value /\ stdout[j].id = Req(k).id
           /\ FramesOf(k, "error") = {}

\* a user handler returned "hi" and the response carrying it was written
C1_Witness ==
  \E k \in Segs :
    /\ IsRequest(k) /\ Registered(k) /\ Bindable(k)
    /\ Handler(k) = "hello_f"
    /\ Events(k, "return", "hello_f") # {}
    /\ \E j \in FramesOf(k, "result") : stdout[j].result = Str("hi")

\* the dispatch of request k fails: unknown method, parameters that cannot be
\* bound, or a handler that raises
DispatchFails(k) ==
  /\ IsRequest(k)
  /\ \/ ~Registered(k)
     \/ ~Bindable(k)
     \/ Events(k, "raise", Handler(k)) # {}

\* C2: a request whose dispatch fails gets exactly one error response with its
\* id and its method name, a log notification with the traceback and no
\* success response, and the loop goes on with the segments after it.
C2_ErrorResponse ==
  \A k \in Segs :
    DispatchFails(k) =>
      /\ Cardinality(FramesOf(k, "error")) = 1
      /\ \A j \in FramesOf(k, "error") :
           stdout[j].id = Req(k).id /\ stdout[j].error = Req(k).method
      /\ \E j \in FramesOf(k, "log") : stdout[j].message = Traceback
      /\ FramesOf(k, "result") = {}
      /\ ContinuedAfter(k)

\* a handler raised, its request was answered with an error, and a later
\* request was answered with a result; a request for an unknown method was
\* answered with an error too
C2_Witness ==
  /\ \E k \in Segs :
       /\ DispatchFails(k) /\ Registered(k) /\ Bindable(k)
       /\ FramesOf(k, "error") # {}
       /\ \E k2 \in Segs : k2 > k /\ FramesOf(k2, "result") # {}
  /\ \E k \in Segs : DispatchFails(k) /\ ~Registered(k) /\ FramesOf(k, "error") # {}

\* C3: a segment that cannot be decoded gets an error response and a log
\* notification, and the loop goes on with the segments after it.
C3_DecodeFailureIsolated ==
  \A k \in Segs :
    ~Decodable(segs[k].text) =>
      /\ FramesOf(k, "error") # {}
      /\ FramesOf(k, "log") # {}
      /\ ContinuedAfter(k)

\* C4: a decodable message without 'id' or without 'method' does not make an
\* exception leave the loop, and the segments after it are dispatched.
C4_MalformedRequestSurvived ==
  \A k \in Segs :
    (Decodable(segs[k].text) /\ (~Req(k).hasId \/ ~Req(k).hasMethod)) =>
      ContinuedAfter(k)

\* C5: the segments dispatched are exactly the complete segments of the text
\* read so far, each once and in order, and while the loop runs the partial
\* buffer is the text after the last delimiter.
C5_Framing ==
  /\ [k \in Segs |-> segs[k].text] = Complete
  /\ pc = "running" => partial = Last(SplitFrames(stdin))

\* the responses (success or error) written for segment k, as trace positions
Responses(k) ==
  {i \in Events(k, "emit", "") : stdout[trace[i].at].type \in {"result", "error"}}

\* C6: segments are dispatched in the order of their frames in the input; all
\* events of a message precede all events of the next one; a handler invoked for
\* a message has returned or raised, and the response of a request is written,
\* before anything happens for the next message; responses are written in
\* arrival order.
C6_Ordering ==
  /\ InOrder
  /\ \A i \in 1..(Len(trace) - 1) : trace[i].seg <= trace[i + 1].seg
  /\ \A i \in 1..Len(trace) :
       trace[i].ev = "invoke" =>
         \E j \in (i + 1)..Len(trace) :
           /\ trace[j].seg = trace[i].seg
           /\ trace[j].func = trace[i].func
           /\ trace[j].ev \in {"return", "raise"}
  /\ \A k \in Segs :
       IsRequest(k) =>
         /\ Cardinality(Responses(k)) = 1
         /\ \A i \in Responses(k) : \A j \in 1..Len(trace) :
              trace[j].seg = k => j <= i
  /\ \A k, k2 \in Segs : \A i \in Responses(k), i2 \in Responses(k2) :
       k < k2 => trace[i].at < trace[i2].at

\* one read delivered two requests, both handlers were invoked and both
\* responses written
C6_Witness ==
  /\ nreads = 1
  /\ Len(segs) = 2
  /\ segs[1].text # segs[2].text
  /\ \A k \in Segs :
       /\ IsRequest(k) /\ Registered(k) /\ Bindable(k)
       /\ Events(k, "invoke", Handler(k)) # {}
       /\ Responses(k) # {}

\* C7: add_method under a name already in the registry raises and leaves the
\* registry as it was; the built-in getmanifest stays bound throughout.
C7_DuplicateNameRejected ==
  [][(pc' = "setup" /\ HasMethod(methods, lastReg'.name)) =>
       /\ lastReg'.raised
       /\ methods' = methods
       /\ FuncOf(methods', "getmanifest") = "_getmanifest"]_vars

\* a second handler was offered for "init" or for "getmanifest": the call
\* raised and the first handler is still bound
C7_Witness ==
  /\ pc = "setup"
  /\ lastReg.raised
  /\ lastReg.name \in {"init", "getmanifest"}
  /\ FuncOf(methods, lastReg.name) # lastReg.func
  /\ HasMethod(methods, "init")

\* the registry and the stash right after segment k was dispatched
After(k) ==
  IF k < Len(segs) THEN [methods |-> segs[k + 1].methods, init |-> segs[k + 1].init]
  ELSE [methods |-> methods, init |-> init]

\* segment k is an 'init' request and the program registered an init handler
InitRequest(k) ==
  /\ IsRequest(k)
  /\ Req(k).method = "init"
  /\ HasMethod(segs[k].methods, "init")

\* the init handler of the program, wherever it was held when segment k was
\* dispatched
UserInit(k) ==
  IF segs[k].init # None THEN segs[k].init ELSE FuncOf(segs[k].methods, "init")

\* the parameters of segment k can be bound to handler f
BindsTo(k, f) ==
  CanBind(Sig(f), Args(Req(k).params), Kwargs(Sig(f), Req(k).params, Decode(segs[k].text)))

\* segment k is the first 'init' request of the stream
FirstInit(k) == \A j \in 1..(k - 1) : ~InitRequest(j)

\* C8 as stated: with a user init handler registered, the first init request
\* reaches the internal handler, which restores the user handler, clears the
\* stash and invokes the user handler once; every later init request invokes
\* the user handler once and never the internal handler.
C8_AsStated ==
  \A k \in Segs :
    InitRequest(k) =>
      /\ Cardinality(Events(k, "invoke", "_init")) = (IF FirstInit(k) THEN 1 ELSE 0)
      /\ Cardinality(Events(k, "invoke", UserInit(k))) = 1
      /\ After(k).init = None
      /\ FuncOf(After(k).methods, "init") = UserInit(k)

\* C8 (amended): with a user init handler registered, an init request whose
\* parameters bind to the internal handler while the stash is set reaches the
\* internal handler once, which restores the user handler, clears the stash and
\* re-dispatches the request: the user handler is invoked once when the
\* parameters bind to it, and what it returns is the result of the response.
\* An init request that does not bind to the internal handler invokes nothing
\* and leaves registry and stash alone.  Once the stash is empty every init
\* request goes to the user handler directly, once when its parameters bind,
\* the internal handler is never invoked again and the stash stays empty.
C8_InitHandshake ==
  /\ Cardinality({i \in 1..Len(trace) :
                    trace[i].ev = "invoke" /\ trace[i].func = "_init"}) <= 1
  /\ \A k \in Segs : segs[k].init = None => After(k).init = None
  /\ \A k \in Segs :
       InitRequest(k) =>
         LET u == UserInit(k)
             once == IF BindsTo(k, u) THEN 1 ELSE 0
         IN  IF segs[k].init # None /\ BindsTo(k, "_init")
             THEN /\ Cardinality(Events(k, "invoke", "_init")) = 1
                  /\ Cardinality(Events(k, "invoke", u)) = once
                  /\ After(k).init = None
                  /\ FuncOf(After(k).methods, "init") = u
                  /\ \A i \in Events(k, "return", u) :
                       /\ Cardinality(FramesOf(k, "result")) = 1
                       /\ \A j \in FramesOf(k, "result") :
                            stdout[j].result = trace[i].value
             ELSE IF segs[k].init # None
             THEN /\ \A i \in 1..Len(trace) : trace[i].seg = k => trace[i].ev # "invoke"
                  /\ After(k).init = segs[k].init
                  /\ After(k).methods = segs[k].methods
             ELSE /\ Events(k, "invoke", "_init") = {}
                  /\ Cardinality(Events(k, "invoke", u)) = once
                  /\ After(k).methods = segs[k].methods

\* a first init request went through the internal handler to the user handler,
\* and a later one went to the user handler directly
C8_Witness ==
  \E k, k2 \in Segs :
    /\ k < k2
    /\ InitRequest(k) /\ InitRequest(k2)
    /\ Events(k, "invoke", "_init") # {}
    /\ Events(k, "return", "uinit_f") # {}
    /\ Events(k2, "invoke", "_init") = {}
    /\ Events(k2, "return", "uinit_f") # {}
    /\ \E j \in FramesOf(k, "result") : stdout[j].result = Str("inited")

\* C9: with no init handler registered, an init request is answered with a
\* success response whose result is null, without error response or log.
C9_InitWithoutUserHandler ==
  \A k \in Segs :
    (IsRequest(k) /\ Req(k).method = "init" /\ ~HasMethod(segs[k].methods, "init")) =>
      /\ \E j \in FramesOf(k, "result") : stdout[j].result = Null
      /\ FramesOf(k, "error") = {}
      /\ FramesOf(k, "log") = {}

\* the record of a write that returned
Wrote(payload) == [op |-> "write", payload |-> payload, raised |-> FALSE]

\* "alpha\nbeta"
AlphaBeta == <<"a", NL, "b">>

\* C10 as stated: from an empty buffer, write("alpha\nbeta") has emitted the one
\* log line "alpha" and retains "beta" when it returns; write("\n") then emits
\* "beta".
C10_AsStated ==
  /\ ops = <<Wrote(AlphaBeta)>> =>
       stdout = <<LogFrame(level, <<"a">>)>> /\ buff = <<"b">>
  /\ ops = <<Wrote(AlphaBeta), Wrote(<<NL>>)>> =>
       /\ stdout = <<LogFrame(level, <<"a">>), LogFrame(level, <<"b">>)>>
       /\ buff = <<>>

\* C10 (amended): from an empty buffer, a write of text that contains a newline
\* but does not end with one emits nothing and retains the whole text when it
\* returns; a following write("\n") then emits one log line per line of the
\* buffer, in order and each once ("alpha", then "beta"), and empties the
\* buffer.
C10_StreamLines ==
  /\ \A payload \in Payloads :
       (Count(payload, NL) > 0 /\ Last(payload) # NL /\ ops = <<Wrote(payload)>>) =>
         stdout = <<>> /\ buff = payload
  /\ ops = <<Wrote(AlphaBeta), Wrote(<<NL>>)>> =>
       /\ stdout = <<LogFrame(level, <<"a">>), LogFrame(level, <<"b">>)>>
       /\ buff = <<>>
  /\ ops = <<Wrote(<<NL, "b">>), Wrote(<<NL>>)>> =>
       /\ stdout = <<LogFrame(level, <<>>), LogFrame(level, <<"b">>)>>
       /\ buff = <<>>

\* "alpha\nbeta" then "\n" were written and two log lines are out
C10_Witness ==
  /\ ops = <<Wrote(AlphaBeta), Wrote(<<NL>>)>>
  /\ Len(stdout) = 2
  /\ buff = <<>>

\* the names in the registry ms other than 'getmanifest' and 'init', in the
\* order of the registry
RECURSIVE Others(_)
Others(ms) ==
  IF ms = <<>> THEN <<>>
  ELSE IF Head(ms).name \in {"getmanifest", "init"} THEN Others(Tail(ms))
  ELSE <<Head(ms).name>> \o Others(Tail(ms))

\* segment k is a 'getmanifest' request
ManifestRequest(k) == IsRequest(k) /\ Req(k).method = "getmanifest"

\* C11: the manifest returned for a 'getmanifest' request lists exactly the
\* registered method names other than 'getmanifest' and 'init', each once,
\* whether the user init handler is stashed, restored or was never
\* registered, and its options list is empty.
C11_ManifestLists ==
  \A k \in Segs :
    ManifestRequest(k) =>
      /\ Cardinality(FramesOf(k, "result")) = 1
      /\ \A j \in FramesOf(k, "result") :
           LET m == stdout[j].result
           IN  /\ m.tag = "manifest"
               /\ m.options = <<>>
               /\ [i \in 1..Len(m.rpcmethods) |-> m.rpcmethods[i].name]
                    = Others(segs[k].methods)
               /\ \A a, b \in 1..Len(m.rpcmethods) :
                    m.rpcmethods[a].name = m.rpcmethods[b].name => a = b

\* a manifest listing 'hello' was returned while the user init handler was
\* stashed, and another after the handler was restored
C11_Witness ==
  \E k, k2 \in Segs :
    /\ ManifestRequest(k) /\ ManifestRequest(k2)
    /\ segs[k].init # None
    /\ segs[k2].init = None /\ HasMethod(segs[k2].methods, "init")
    /\ \A n \in {k, k2} : \E j \in FramesOf(n, "result") :
         /\ stdout[j].result.rpcmethods # <<>>
         /\ stdout[j].result.rpcmethods[1].name = "hello"

\* the positions in wire of the calls w
Calls(w) == {p \in 1..Len(wire) : wire[p].w = w}

C13_EndOfInput ==
  /\ eof ~> (pc = "done")
  /\ [][eof => UNCHANGED <<segs, trace, stdout, wire>>]_vars
  /\ [](pc = "done" => InOrder /\ Len(segs) = Len(Complete)
                        /\ partial = Last(SplitFrames(stdin)))

\* run returned after requests were answered, with the beginning of a
\* request left in partial
C13_Witness ==
  /\ pc = "done"
  /\ Strip(partial) # <<>>
  /\ \E k \in Segs : FramesOf(k, "result") # {}

\* the messages of the frames fs, each followed by a newline, concatenated
RECURSIVE Joined(_)
Joined(fs) == IF fs = <<>> THEN <<>> ELSE Head(fs).message \o <<NL>> \o Joined(Tail(fs))

\* the frames written by the step
NewFrames == SubSeq(stdout', Len(stdout) + 1, Len(stdout'))

\* the step is a flush of the PluginStream, called by the program or by a
\* write of text that ends with a newline
Flushing ==
  /\ Len(ops') = Len(ops) + 1
  /\ \/ Last(ops').op = "flush"
     \/ Last(ops').payload # <<>> /\ Last(Last(ops').payload) = NL

\* the buffer the flush of the step works on
FlushInput == IF Last(ops').op = "flush" THEN buff ELSE buff \o Last(ops').payload

\* C14: a flush of the PluginStream emits one log notification per
\* newline-terminated line of the buffer, in order and at the stream's level,
\* and never the text after the last newline; after it the buffer holds no
\* newline and is that text; on a buffer without a newline it emits nothing
\* and leaves the buffer as it is.
C14_FlushLines ==
  [][Flushing =>
       /\ Len(stdout') >= Len(stdout)
       /\ SubSeq(stdout', 1, Len(stdout)) = stdout
       /\ Len(NewFrames) = Count(FlushInput, NL)
       /\ \A i \in 1..Len(NewFrames) :
            /\ NewFrames[i] = LogFrame(level, NewFrames[i].message)
            /\ Count(NewFrames[i].message, NL) = 0
       /\ Joined(NewFrames) \o buff' = FlushInput
       /\ Count(buff', NL) = 0
       /\ Count(FlushInput, NL) = 0 => stdout' = stdout /\ buff' = FlushInput]_vars

\* two lines are out at the level "warn", the second one by a flush the
\* program called, which kept the text after it
C14_Witness ==
  /\ level = "warn"
  /\ Len(ops) > 1 /\ Last(ops).op = "flush"
  /\ stdout = <<LogFrame("warn", <<"a">>), LogFrame("warn", <<>>)>>
  /\ buff = <<"b">>

\* all the text written to the PluginStream so far
RECURSIVE Written(_)
Written(os) ==
  IF os = <<>> THEN <<>>
  ELSE (IF Head(os).op = "write" THEN Head(os).payload ELSE <<>>) \o Written(Tail(os))

\* C18: the PluginStream loses, duplicates and reorders nothing: the messages
\* of the log notifications emitted so far, each followed by a newline, in
\* order and followed by the buffer, are all the text written so far.
C18_NothingLost ==
  /\ \A i \in 1..Len(stdout) : stdout[i].type = "log"
  /\ Joined(stdout) \o buff = Written(ops)

\* three writes, an empty line among them, have put two notifications out and
\* left text in the buffer
C18_Witness ==
  /\ Len(ops) = MaxOps /\ \A i \in 1..Len(ops) : ops[i].op = "write"
  /\ Len(stdout) > 1 /\ \E i \in 1..Len(stdout) : stdout[i].message = <<>>
  /\ buff # <<>>

\* C19: writing the empty string to the PluginStream is a no-op: it raises no
\* error, emits no log notification and leaves the buffer unchanged.
C19_EmptyWriteNoOp ==
  [][(Len(ops') = Len(ops) + 1 /\ Last(ops').op = "write"
       /\ Last(ops').payload = <<>>) =>
       ~Last(ops').raised /\ stdout' = stdout /\ buff' = buff]_vars

\* the calls of handlers recorded so far
Invocations == {i \in 1..Len(trace) : trace[i].ev = "invoke"}

\* the request whose dispatch made call i
Caller(i) == Req(trace[i].seg)

\* the request of call i supplies a value under the name n
Supplies(i, n) == Caller(i).params.kind = "dict" /\ KwHas(Caller(i).params.kwargs, n)

\* what the plugin injects under the reserved name n for call i: itself, or
\* the raw request
Injected(i, n) == IF n = "plugin" THEN "SELF" ELSE Decode(segs[trace[i].seg].text)

\* C15 as stated: a handler that declares 'plugin' or 'request' receives the
\* caller's value when the params supply one under that name, and the plugin
\* instance or the raw request otherwise; a handler that does not declare
\* the name receives nothing under it.
C15_AsStated ==
  \A i \in Invocations : \A n \in {"plugin", "request"} :
    IF SigHas(Sig(trace[i].func), n)
    THEN /\ KwHas(trace[i].bound, n)
         /\ KwGet(trace[i].bound, n) =
              IF Supplies(i, n) THEN KwGet(Caller(i).params.kwargs, n)
              ELSE Injected(i, n)
    ELSE ~KwHas(trace[i].bound, n)

\* C15 (amended): a handler that declares 'plugin' or 'request' receives the
\* plugin instance or the raw request under that name, whether or not the
\* params supply a value under it: a value the caller supplies is replaced;
\* a handler that does not declare the name receives nothing under it.
C15_ReservedInjected ==
  \A i \in Invocations : \A n \in {"plugin", "request"} :
    IF SigHas(Sig(trace[i].func), n)
    THEN /\ KwHas(trace[i].bound, n)
         /\ KwGet(trace[i].bound, n) = Injected(i, n)
    ELSE ~KwHas(trace[i].bound, n)

\* a handler declaring both names was called for a request that supplies
\* both, and received the plugin and the raw request
C15_Witness ==
  \E i \in Invocations :
    /\ trace[i].func = "hello_f"
    /\ Supplies(i, "plugin") /\ Supplies(i, "request")
    /\ KwGet(trace[i].bound, "plugin") = "SELF"
    /\ KwGet(trace[i].bound, "request") = "P"

\* the list params of request k are long enough to reach a parameter named
\* 'plugin' or 'request' of its handler
ReachesReserved(k) ==
  /\ IsRequest(k) /\ Registered(k)
  /\ Req(k).params.kind = "list"
  /\ \E n \in {"plugin", "request"} :
       /\ SigHas(Sig(Handler(k)), n)
       /\ SigPos(Sig(Handler(k)), n) <= Len(Req(k).params.args)

\* C16: when the params of a request are a list long enough for a value to
\* bind by position to a parameter the handler declares as 'plugin' or
\* 'request', the dispatch fails before the handler is invoked and the
\* request is answered with one error response.
C16_PositionalReservedRejected ==
  \A k \in Segs :
    ReachesReserved(k) =>
      /\ Events(k, "invoke", Handler(k)) = {}
      /\ Cardinality(FramesOf(k, "error")) = 1
      /\ \A j \in FramesOf(k, "error") : stdout[j].id = Req(k).id
      /\ FramesOf(k, "result") = {}

\* a list of two values was sent to a handler whose second parameter is
\* 'plugin', and an error response answered it
C16_Witness ==
  \E k \in Segs :
    /\ ReachesReserved(k)
    /\ Handler(k) = "hello_f"
    /\ FramesOf(k, "error") # {}

\* the init handler the program registered, wherever it is held, or None
UserInitNow ==
  IF init # None THEN init
  ELSE IF HasMethod(methods, "init") THEN FuncOf(methods, "init")
  ELSE None

\* C17: in every state of the handshake the stash is set exactly when the
\* registry's 'init' entry is the internal handler, so the user init handler
\* is held in exactly one of the two places; it is never lost; and the stash
\* is empty from the first init request that reaches the internal handler on.
C17_StashOrRegistry ==
  /\ []((init # None) <=>
           (HasMethod(methods, "init") /\ FuncOf(methods, "init") = "_init"))
  /\ [](init # "_init")
  /\ []((\E i \in Invocations : trace[i].func = "_init") => init = None)
  /\ [][UserInitNow # None => UserInitNow' = UserInitNow]_vars

\* an init request reached the internal handler, the user handler raised, and
\* the user handler is back in the registry with the stash empty
C17_Witness ==
  /\ init = None
  /\ HasMethod(methods, "init") /\ FuncOf(methods, "init") = "boom_f"
  /\ \E k \in Segs :
       /\ InitRequest(k) /\ segs[k].init = "boom_f"
       /\ Events(k, "invoke", "_init") # {}
       /\ Events(k, "raise", "boom_f") # {}

\* C20: after construction the plugin's output and input streams are always
\* defined: the streams the program supplied when it supplied them, the
\* process's standard streams when it did not.
C20_StreamsDefined ==
  /\ SelfStdout(ctor) = (IF ctor.stdout # None THEN ctor.stdout ELSE "sys.stdout")
  /\ SelfStdin(ctor) = (IF ctor.stdin # None THEN ctor.stdin ELSE "sys.stdin")

====
